---- MODULE Spec2Model ----
(***************************************************************************)
(* A model of the SIEVE cache of jairad26/nitro (src/src/sieve.rs,         *)
(* src/src/eviction.rs, src/src/linked_list.rs, src/src/node.rs).          *)
(*                                                                         *)
(* The store is used by one caller at a time (every operation takes        *)
(* &mut self), so each public operation is one atomic action.  Every       *)
(* Arc<Mutex<Node>> is a cell of `heap`, named by a node id; a cell lives  *)
(* as long as some Arc to it is reachable from the store.  No operation    *)
(* panics while it holds a guard, so no Mutex is ever poisoned and the     *)
(* LockError branches are never taken.                                     *)
(***************************************************************************)
EXTENDS Integers, Sequences, FiniteSets, TLC

\* ------------------------------------------------------------------ bounds
NumKeys == 3
NumValues == 2
MaxCapacity == 2
MaxNodes == 4
MaxHeld == 3
MaxGets == 1
NumValuedKeys == 1
UsizeBits == 3

Keys == 1..NumKeys
Values == 1..NumValues
\* the values a caller stores under a key: the first NumValuedKeys keys take
\* every value, the others one
ValuesOf(key) == IF key <= NumValuedKeys THEN Values ELSE {CHOOSE v \in Values : TRUE}
NodeIds == 1..MaxNodes

\* Option::None for an Option<Arc<Mutex<Node>>> and for Option<V>
None == 0

\* usize arithmetic is modulo 2^UsizeBits (the width is scaled down)
UsizeModulus == 2 ^ UsizeBits

VARIABLES cache, head, tail, hand, size, capacity, stats, heap,
          overflow_checks, status

vars == <<cache, head, tail, hand, size, capacity, stats, heap,
          overflow_checks, status>>

\* ------------------------------------------------------------------- nodes
\* the content of a heap cell that no Arc refers to
NoNode == [key |-> None, value |-> None, visited |-> FALSE, next |-> None, prev |-> None]

\* Node::new(key, value)
NewNode(key, value) == [key |-> key, value |-> value, visited |-> FALSE, next |-> None, prev |-> None]

\* the fields of SieveCache that the operations read and write, as one value.
\* panic: an arithmetic overflow check aborted the call; full: the bounded heap
\* had no cell for Arc::new; evicts: calls of evict; insp: the cells whose
\* visited flag an eviction loaded, in order; victim: the cell it unlinked;
\* removed: what its cache.remove returned; held: the cells whose MutexGuard the
\* call holds; blocked: the call locked a Mutex whose guard it held; spin: the
\* eviction loop outran every loop that ends
Store == [cache |-> cache, head |-> head, tail |-> tail, hand |-> hand, size |-> size, stats |-> stats, heap |-> heap, panic |-> FALSE, full |-> FALSE, evicts |-> 0, insp |-> <<>>, victim |-> None, removed |-> None, held |-> {}, blocked |-> FALSE, spin |-> FALSE]

\* Mutex::lock by the one thread that uses the store: it never returns when that
\* thread holds the guard already
Lock(s, n) == IF n \in s.held THEN [s EXCEPT !.blocked = TRUE] ELSE [s EXCEPT !.held = s.held \cup {n}]

\* the guard goes out of scope or is dropped
Unlock(s, n) == [s EXCEPT !.held = s.held \ {n}]

\* one step of following Arcs from a set of cells
Succ(h, S) == S \cup {h[n].next : n \in S} \cup {h[n].prev : n \in S}

RECURSIVE Closure(_, _)
Closure(h, S) == LET T == Succ(h, S) \ {None} IN IF T = S THEN S ELSE Closure(h, T)

\* the cells some Arc of the store still leads to
Reachable(s) == Closure(s.heap, ({s.head, s.tail, s.hand} \cup {s.cache[k] : k \in Keys}) \ {None})

\* dropping the last Arc to a cell frees it
Drop(s) == LET R == Reachable(s) IN [s EXCEPT !.heap = [n \in DOMAIN s.heap |-> IF n \in R THEN s.heap[n] ELSE NoNode]]

FreeIds(s) == DOMAIN s.heap \ Reachable(s)

\* the cells of the store in the order a traversal from head, tail, hand and the
\* index meets them: the name of a cell is its place in that order, since an
\* Arc has no identity beyond who points to it
RECURSIVE Trav(_, _, _)
Trav(h, seen, q) ==
    IF q = <<>> THEN seen
    ELSE LET n == Head(q)
         IN IF n = None \/ \E i \in 1..Len(seen) : seen[i] = n
            THEN Trav(h, seen, Tail(q))
            ELSE Trav(h, Append(seen, n), Tail(q) \o <<h[n].next, h[n].prev>>)

Roots(s) == <<s.head, s.tail, s.hand>> \o [i \in 1..NumKeys |-> s.cache[i]]

Rename(order, n) == IF n = None THEN None ELSE CHOOSE i \in 1..Len(order) : order[i] = n

Compact(s) ==
    LET order == Trav(s.heap, <<>>, Roots(s))
        R(n) == Rename(order, n)
    IN [s EXCEPT !.cache = [k \in Keys |-> R(s.cache[k])],
                 !.head = R(s.head), !.tail = R(s.tail), !.hand = R(s.hand),
                 !.heap = [i \in DOMAIN s.heap |-> IF i <= Len(order)
                                             THEN [s.heap[order[i]] EXCEPT !.next = R(@), !.prev = R(@)]
                                             ELSE NoNode]]

\* Arc::new: the cell that the allocation returns
Alloc(s) == CHOOSE n \in FreeIds(s) : \A m \in FreeIds(s) : n <= m

\* ------------------------------------------------------- usize arithmetic
\* self.size -= 1
SizeSub1(s) == IF s.size = 0 THEN (IF overflow_checks THEN [s EXCEPT !.panic = TRUE] ELSE [s EXCEPT !.size = UsizeModulus - 1]) ELSE [s EXCEPT !.size = s.size - 1]

\* self.size += 1
SizeAdd1(s) == IF s.size = UsizeModulus - 1 THEN (IF overflow_checks THEN [s EXCEPT !.panic = TRUE] ELSE [s EXCEPT !.size = 0]) ELSE [s EXCEPT !.size = s.size + 1]

\* ------------------------------------------------------------ list manager
\* an insert_node that writes the new node into next of the old head, not prev
insert_node_next(s, key, value) ==
    IF FreeIds(s) = {} THEN [s EXCEPT !.full = TRUE] ELSE
    LET n == Alloc(s)
        s0 == Lock([s EXCEPT !.heap[n] = NewNode(key, value)], n)
        s1 == Unlock([s0 EXCEPT !.heap[n].next = s.head], n)
        s2 == IF s1.head # None
              THEN Unlock([Lock(s1, s1.head) EXCEPT !.heap[s1.head].next = n], s1.head)
              ELSE s1
        s3 == [s2 EXCEPT !.head = n]
        s4 == IF s3.tail = None THEN [s3 EXCEPT !.tail = n] ELSE s3
        s5 == [s4 EXCEPT !.cache[key] = n]
    IN SizeAdd1(s5)

\* linked_list.rs insert_node
insert_node(s, key, value) ==
    IF FreeIds(s) = {} THEN [s EXCEPT !.full = TRUE] ELSE
    LET n == Alloc(s)
        s0 == Lock([s EXCEPT !.heap[n] = NewNode(key, value)], n)
        s1 == Unlock([s0 EXCEPT !.heap[n].next = s.head], n)
        s2 == IF s1.head # None
              THEN Unlock([Lock(s1, s1.head) EXCEPT !.heap[s1.head].prev = n], s1.head)
              ELSE s1
        s3 == [s2 EXCEPT !.head = n]
        s4 == IF s3.tail = None THEN [s3 EXCEPT !.tail = n] ELSE s3
        s5 == [s4 EXCEPT !.cache[key] = n]
    IN SizeAdd1(s5)

\* linked_list.rs unlink_node
unlink_node(s, node) ==
    LET next == s.heap[node].next
        prev == s.heap[node].prev
        s0 == Unlock(Lock(s, node), node)
        s1 == IF prev # None
              THEN Unlock([Lock(s0, prev) EXCEPT !.heap[prev].next = next], prev)
              ELSE [s0 EXCEPT !.head = next]
    IN IF next # None
       THEN Unlock([Lock(s1, next) EXCEPT !.heap[next].prev = prev], next)
       ELSE [s1 EXCEPT !.tail = prev]

\* ---------------------------------------------------------- eviction engine
\* more iterations than a loop that ends can make: it clears the flag of every
\* cell it passes, so it meets no cell visited twice
LoopFuel(s) == 2 * Cardinality(DOMAIN s.heap) + 2

\* eviction.rs evict, the while loop
RECURSIVE evict_loop(_)
\* the loop without the second chance: it leaves the flag it found set
evict_loop_keep_flag(s) ==
    IF s.hand = None THEN s
    ELSE IF Len(s.insp) >= LoopFuel(s) THEN [s EXCEPT !.spin = TRUE]
    ELSE LET current == s.hand
             curr == s.heap[current]
             si == [Lock(s, current) EXCEPT !.insp = Append(s.insp, current)]
         IN IF ~curr.visited
            THEN LET key == curr.key
                     prev == curr.prev
                     s0 == Unlock(si, current)
                     s1 == [s0 EXCEPT !.cache[key] = None, !.removed = s0.cache[key], !.victim = current]
                     s2 == unlink_node(s1, current)
                     s3 == [s2 EXCEPT !.hand = prev]
                 IN SizeSub1(s3)
            ELSE LET s1 == Unlock(si, current)
                     s2 == [s1 EXCEPT !.hand = curr.prev]
                     s3 == IF s2.hand = None THEN [s2 EXCEPT !.hand = s2.tail] ELSE s2
                 IN evict_loop(s3)

\* the loop without the drop of the guard before cache.remove and unlink_node
evict_loop_holding(s) ==
    IF s.hand = None THEN s
    ELSE IF Len(s.insp) >= LoopFuel(s) THEN [s EXCEPT !.spin = TRUE]
    ELSE LET current == s.hand
             curr == s.heap[current]
             si == [Lock(s, current) EXCEPT !.insp = Append(s.insp, current)]
         IN IF ~curr.visited
            THEN LET key == curr.key
                     prev == curr.prev
                     s1 == [si EXCEPT !.cache[key] = None, !.removed = si.cache[key], !.victim = current]
                     s2 == unlink_node(s1, current)
                     s3 == [s2 EXCEPT !.hand = prev]
                 IN Unlock(SizeSub1(s3), current)
            ELSE LET s1 == Unlock([si EXCEPT !.heap[current].visited = FALSE], current)
                     s2 == [s1 EXCEPT !.hand = curr.prev]
                     s3 == IF s2.hand = None THEN [s2 EXCEPT !.hand = s2.tail] ELSE s2
                 IN evict_loop(s3)

evict_loop(s) ==
    IF s.hand = None THEN s
    ELSE IF Len(s.insp) >= LoopFuel(s) THEN [s EXCEPT !.spin = TRUE]
    ELSE LET current == s.hand
             curr == s.heap[current]
             si == [Lock(s, current) EXCEPT !.insp = Append(s.insp, current)]
         IN IF ~curr.visited
            THEN LET key == curr.key
                     prev == curr.prev
                     s0 == Unlock(si, current)
                     s1 == [s0 EXCEPT !.cache[key] = None, !.removed = s0.cache[key], !.victim = current]
                     s2 == unlink_node(s1, current)
                     s3 == [s2 EXCEPT !.hand = prev]
                 IN SizeSub1(s3)
            ELSE LET s1 == Unlock([si EXCEPT !.heap[current].visited = FALSE], current)
                     s2 == [s1 EXCEPT !.hand = curr.prev]
                     s3 == IF s2.hand = None THEN [s2 EXCEPT !.hand = s2.tail] ELSE s2
                 IN evict_loop(s3)

\* eviction.rs evict
evict(s) ==
    LET s0 == [s EXCEPT !.evicts = s.evicts + 1]
        s1 == IF s0.hand = None THEN [s0 EXCEPT !.hand = s0.tail] ELSE s0
    IN evict_loop(s1)

\* ------------------------------------------------------------- cache store
\* an insert that links the new entry before it evicts
insert_first(s, key, value) ==
    LET s1 == insert_node(s, key, value)
    IN IF s.size = capacity /\ ~s1.full THEN Drop(evict(s1)) ELSE s1

\* sieve.rs insert
insert(s, key, value) ==
    LET s1 == IF s.size = capacity THEN Drop(evict(s)) ELSE s
    IN IF s1.panic THEN s1 ELSE insert_node(s1, key, value)

\* a get that counts every call as a hit
get_all_hits(s, key) ==
    IF s.cache[key] # None
    THEN [s EXCEPT !.heap[s.cache[key]].visited = TRUE, !.stats.hits = s.stats.hits + 1]
    ELSE [s EXCEPT !.stats.hits = s.stats.hits + 1]

\* a get that promotes the entry it finds to head, as an LRU would
get_promote(s, key) ==
    IF s.cache[key] # None
    THEN [s EXCEPT !.heap[s.cache[key]].visited = TRUE, !.stats.hits = s.stats.hits + 1, !.head = s.cache[key]]
    ELSE [s EXCEPT !.stats.misses = s.stats.misses + 1]

\* sieve.rs get
get(s, key) ==
    IF s.cache[key] # None
    THEN Unlock([Lock(s, s.cache[key]) EXCEPT !.heap[s.cache[key]].visited = TRUE, !.stats.hits = s.stats.hits + 1], s.cache[key])
    ELSE [s EXCEPT !.stats.misses = s.stats.misses + 1]

\* the value that get returns: Some(v) is v, None is None
get_ret(s, key) == IF s.cache[key] # None THEN s.heap[s.cache[key]].value ELSE None

\* an add that keeps the old value of a key it finds
add_keep(s, key, value) ==
    IF s.cache[key] # None
    THEN [s EXCEPT !.heap[s.cache[key]].visited = TRUE]
    ELSE insert(s, key, value)

\* sieve.rs add
add(s, key, value) ==
    IF s.cache[key] # None
    THEN Unlock([Lock(s, s.cache[key]) EXCEPT !.heap[s.cache[key]].visited = TRUE, !.heap[s.cache[key]].value = value], s.cache[key])
    ELSE insert(s, key, value)

\* the bool that add returns: whether it found the key
add_ret(s, key) == s.cache[key] # None

\* a probe that counts the key it finds as a hit, as get does
probe_counting(s, key, value) ==
    IF s.cache[key] # None
    THEN [s EXCEPT !.stats.hits = s.stats.hits + 1]
    ELSE insert(s, key, value)

\* a probe that overwrites the value of a key it finds, as add does
probe_overwrite(s, key, value) ==
    IF s.cache[key] # None
    THEN [s EXCEPT !.heap[s.cache[key]].value = value]
    ELSE insert(s, key, value)

\* sieve.rs probe
probe(s, key, value) ==
    IF s.cache[key] # None THEN Unlock(Lock(s, s.cache[key]), s.cache[key]) ELSE insert(s, key, value)

\* the value of the pair that probe returns
probe_ret(s, key, value) == IF s.cache[key] # None THEN s.heap[s.cache[key]].value ELSE value

\* sieve.rs delete
delete(s, key) ==
    IF s.cache[key] # None
    THEN SizeSub1(unlink_node([s EXCEPT !.cache[key] = None], s.cache[key]))
    ELSE s

\* the bool that delete returns: whether cache.remove found the key
delete_ret(s, key) == s.cache[key] # None

\* a purge that leaves the hand where it was
purge_keep_hand(s) == [s EXCEPT !.cache = [k \in Keys |-> None], !.head = None, !.tail = None, !.size = 0]

\* a purge that also zeroes the statistics
purge_stats(s) ==
    [s EXCEPT !.cache = [k \in Keys |-> None], !.head = None, !.tail = None, !.hand = None, !.size = 0,
              !.stats = [hits |-> 0, misses |-> 0]]

\* sieve.rs purge
purge(s) == [s EXCEPT !.cache = [k \in Keys |-> None], !.head = None, !.tail = None, !.hand = None, !.size = 0]

\* sieve.rs len, is_empty
len == size

is_empty == size = 0

\* ---------------------------------------------------------------- actions
\* the store after a call returned, panicked or hung
Commit(s) ==
    \E d \in {Compact(s)} :
        /\ cache' = d.cache
        /\ head' = d.head
        /\ tail' = d.tail
        /\ hand' = d.hand
        /\ size' = d.size
        /\ stats' = d.stats
        /\ heap' = d.heap
        /\ status' = IF d.blocked THEN "blocked" ELSE IF d.spin THEN "spinning" ELSE IF d.panic THEN "panicked" ELSE "ok"
        /\ UNCHANGED <<capacity, overflow_checks>>

\* a heap of cells that no Arc refers to
EmptyHeap(cells) == [n \in 1..cells |-> NoNode]

\* a new that accepts every capacity
new_any(cap, checks) ==
    /\ capacity = cap
    /\ overflow_checks = checks
    /\ status = "ok"
    /\ cache = [k \in Keys |-> None]
    /\ head = None
    /\ tail = None
    /\ hand = None
    /\ size = 0
    /\ stats = [hits |-> 0, misses |-> 0]

\* sieve.rs new: Err(CapacityError) for capacity < 1, else the empty store
new(cap, checks) ==
    /\ capacity = cap
    /\ overflow_checks = checks
    /\ status = IF cap < 1 THEN "CapacityError" ELSE "ok"
    /\ cache = [k \in Keys |-> None]
    /\ head = None
    /\ tail = None
    /\ hand = None
    /\ size = 0
    /\ stats = [hits |-> 0, misses |-> 0]

\* any capacity, and a build with overflow checks (the dev and test profiles)
\* or without them (the release profile), in a heap of MaxHeld cells
Init == \E cap \in 0..MaxCapacity, checks \in BOOLEAN : new(cap, checks) /\ heap = EmptyHeap(MaxHeld)

\* the builds with overflow checks only
InitChecked == \E cap \in 0..MaxCapacity : new(cap, TRUE) /\ heap = EmptyHeap(MaxHeld)

\* the builds with overflow checks, in a heap of MaxNodes cells
InitSweep == \E cap \in 0..MaxCapacity : new(cap, TRUE) /\ heap = EmptyHeap(MaxNodes)

Get(key) ==
    /\ status = "ok"
    /\ stats.hits + stats.misses < MaxGets
    /\ Commit(get(Store, key))

Add(key, value) ==
    /\ status = "ok"
    /\ \E r \in {add(Store, key, value)} :
           /\ ~r.full
           /\ Commit(r)

Probe(key, value) ==
    /\ status = "ok"
    /\ \E r \in {probe(Store, key, value)} :
           /\ ~r.full
           /\ Commit(r)

Delete(key) ==
    /\ status = "ok"
    /\ Commit(delete(Store, key))

Purge ==
    /\ status = "ok"
    /\ Commit(purge(Store))

\* every call, with one value for every key: the structure of the store, in
\* both builds
Next ==
    \/ \E key \in Keys : Get(key)
    \/ \E key \in Keys, value \in {CHOOSE v \in Values : TRUE} : Add(key, value)
    \/ \E key \in Keys, value \in {CHOOSE v \in Values : TRUE} : Probe(key, value)
    \/ \E key \in Keys : Delete(key)
    \/ Purge

Spec == Init /\ [][Next]_vars

\* the calls that write or remove entries, with values that differ
NextValues ==
    \/ \E key \in Keys : \E value \in ValuesOf(key) : Add(key, value)
    \/ \E key \in Keys : \E value \in ValuesOf(key) : Probe(key, value)
    \/ \E key \in Keys : Delete(key)
    \/ Purge

SpecValues == InitChecked /\ [][NextValues]_vars

\* get among add and delete, with values that differ; probe on a miss and purge
\* lead to no store that add and delete do not lead to
NextGet ==
    \/ \E key \in Keys : Get(key)
    \/ \E key \in Keys : \E value \in ValuesOf(key) : Add(key, value)
    \/ \E key \in Keys : Delete(key)

SpecGet == InitChecked /\ [][NextGet]_vars

\* add and delete alone, with one value, in a heap of MaxNodes cells: room for
\* the entries that a removed entry's prev still holds
NextSweep ==
    \/ \E key \in Keys, value \in {CHOOSE v \in Values : TRUE} : Add(key, value)
    \/ \E key \in Keys : Delete(key)

SpecSweep == InitSweep /\ [][NextSweep]_vars

\* every call but delete, with values that differ, in both builds
NextNoDelete ==
    \/ \E key \in Keys : Get(key)
    \/ \E key \in Keys, value \in Values : Add(key, value)
    \/ \E key \in Keys, value \in Values : Probe(key, value)
    \/ Purge

SpecNoDelete == Init /\ [][NextNoDelete]_vars

\* ------------------------------------------------------------ observations
\* the keys that get finds
IndexKeys == {k \in Keys : cache[k] # None}

\* the cells met by following next from n, at most fuel of them
RECURSIVE Walk(_, _, _)
Walk(h, n, fuel) == IF n = None \/ fuel = 0 THEN <<>> ELSE <<n>> \o Walk(h, h[n].next, fuel - 1)

\* the forward traversal from head; longer than MaxNodes only if it cycles
List == Walk(heap, head, MaxNodes + 1)

ListKeys == {heap[List[i]].key : i \in 1..Len(List)}

\* the keys in list order, head first
ListOrder == [i \in 1..Len(List) |-> heap[List[i]].key]

\* ------------------------------------------------------------------ claims
\* C1: in every state a sequence of calls reaches, the keys of the index are the
\* keys of the entries that following next from head reaches, each reached once
C1_IndexListConsistent ==
    status = "ok" =>
        /\ Len(List) <= MaxNodes
        /\ ListKeys = IndexKeys
        /\ \A i, j \in 1..Len(List) : heap[List[i]].key = heap[List[j]].key => i = j

\* C2: len() is the number of keys in the index
C2_LenIsIndexCardinality == status = "ok" => len = Cardinality(IndexKeys)

\* C3: len() <= capacity() in every state of a store built with capacity >= 1
C3_LenAtMostCapacity == status = "ok" => len <= capacity

\* C3: capacity() never changes after construction
C3_CapacityFixed == [][capacity' = capacity]_vars

\* the call whose outcome is r returned: it neither refused, panicked nor hung
Returned(r) == ~r.full /\ ~r.panic /\ ~r.blocked /\ ~r.spin

\* the outcome of an insertion of key with value, by add or by probe
Insertion(by_add, key, value) == IF by_add THEN add(Store, key, value) ELSE probe(Store, key, value)

\* C4: add or probe of an absent key at size == capacity invokes the eviction
\* once, after which exactly one key that was retrievable is not, every other
\* key keeps its value, and len() == capacity()
C4_EvictsExactlyOne ==
    (status = "ok" /\ size = capacity) =>
        \A key \in Keys \ IndexKeys, value \in Values, by_add \in BOOLEAN :
            LET r == Insertion(by_add, key, value)
            IN Returned(r) =>
                   /\ r.evicts = 1
                   /\ Cardinality({k \in IndexKeys : r.cache[k] = None}) = 1
                   /\ \A k \in IndexKeys :
                          r.cache[k] # None => r.heap[r.cache[k]].value = heap[cache[k]].value
                   /\ r.size = capacity

\* where a sweep starts, and where it goes from cell n
SweepStart == IF hand # None THEN hand ELSE tail

PrevOrTail(n) == IF heap[n].prev # None THEN heap[n].prev ELSE tail

\* the i-th cell of the sweep from the hand toward head, wrapping to tail
RECURSIVE SweepAt(_)
SweepAt(i) == IF i = 1 THEN SweepStart ELSE PrevOrTail(SweepAt(i - 1))

\* the sweep stops at the first cell that is unvisited or that it has met before
\* (whose flag it has cleared by then)
SweepStops(i) == ~heap[SweepAt(i)].visited \/ \E j \in 1..(i - 1) : SweepAt(j) = SweepAt(i)

SweepLen == CHOOSE i \in 1..(MaxNodes + 1) : SweepStops(i) /\ \A j \in 1..(i - 1) : ~SweepStops(j)

\* the state in which insert calls evict
EvictionDue == status = "ok" /\ size = capacity

\* C5, the sweep: an eviction inspects the cells from the hand (from tail when
\* the hand is unset) toward head, wrapping from head to tail; the victim is the
\* first one met unvisited; the flags of the cells inspected before it are
\* cleared and no other flag changes; the hand ends on the victim's prev
C5_Sweep ==
    EvictionDue =>
        /\ SweepStart # None
        /\ LET r == evict(Store)
               victim == SweepAt(SweepLen)
               before == {SweepAt(i) : i \in 1..(SweepLen - 1)}
           IN /\ r.insp = [i \in 1..SweepLen |-> SweepAt(i)]
              /\ r.victim = victim
              /\ r.cache[heap[victim].key] = None
              /\ \A n \in DOMAIN heap : r.heap[n].visited = (n \notin before /\ heap[n].visited)
              /\ r.hand = heap[victim].prev

\* C5, the test of the spec: capacity 2, key1 then key2 added, key1 read; adding
\* key3 evicts key2 and keeps key1 and key3
C5_Scenario ==
    \A k1, k2, k3 \in Keys, v \in Values :
        (/\ status = "ok" /\ capacity = 2 /\ size = 2 /\ hand = None
         /\ k1 # k2 /\ IndexKeys = {k1, k2} /\ k3 \notin IndexKeys
         /\ head = cache[k2] /\ tail = cache[k1]
         /\ heap[head] = [heap[head] EXCEPT !.key = k2, !.visited = FALSE, !.next = tail, !.prev = None]
         /\ heap[tail] = [heap[tail] EXCEPT !.key = k1, !.visited = TRUE, !.next = None, !.prev = head])
        => LET r == add(Store, k3, v)
           IN {k \in Keys : r.cache[k] # None} = {k1, k3} /\ r.victim = cache[k2]

\* C5, the full sweep: with every entry visited and the hand unset the tail is
\* evicted and every survivor ends unvisited
C5_AllVisited ==
    (/\ EvictionDue /\ hand = None /\ tail # None
     /\ \A k \in IndexKeys : heap[cache[k]].visited
     /\ \A i \in 1..Len(List) : heap[List[i]].visited)
    => LET r == evict(Store)
       IN /\ r.victim = tail
          /\ r.cache[heap[tail].key] = None
          /\ \A k \in Keys : r.cache[k] # None => ~r.heap[r.cache[k]].visited

\* C5: an eviction sweeps from the hand toward head and wraps to tail, evicts
\* the first unvisited entry it meets, clears the flags it passed and leaves the
\* hand on the victim's prev; so key2 goes in the capacity-2 test, and the tail
\* goes when every entry is visited
C5_EvictionSweep == C5_Sweep /\ C5_Scenario /\ C5_AllVisited

\* a cell is live when the index maps its key to it
Live(n) == n # None /\ heap[n].key # None /\ cache[heap[n].key] = n

InList(n) == \E i \in 1..Len(List) : List[i] = n

\* C6: the hand is unset or refers to an entry that is in the index and in the
\* list
C6_HandLive == status = "ok" => (hand = None \/ (Live(hand) /\ InList(hand)))

\* C7: with a non-empty index head and tail are live, head.prev and tail.next
\* are unset; with an empty index head and tail are unset
C7_HeadTailLive ==
    status = "ok" =>
        IF IndexKeys # {}
        THEN Live(head) /\ Live(tail) /\ heap[head].prev = None /\ heap[tail].next = None
        ELSE head = None /\ tail = None

\* what a call that found its key leaves alone: the index, the list ends, the
\* hand and the counter of entries
SameShape(r) == r.cache = cache /\ r.head = head /\ r.tail = tail /\ r.hand = hand /\ r.size = size

\* the store can take one more get within the bound on counted calls
CanGet == status = "ok" /\ stats.hits + stats.misses < MaxGets

\* C8: get of a present key returns its value, sets that entry's visited flag
\* and counts a hit; get of an absent key returns none and counts a miss; head,
\* tail, hand, the links, the index, size, the values and the other flags stay
C8_GetFrame ==
    status = "ok" =>
        \A key \in Keys :
            LET r == get(Store, key)
            IN /\ Returned(r)
               /\ SameShape(r)
               /\ IF key \in IndexKeys
                  THEN /\ get_ret(Store, key) = heap[cache[key]].value
                       /\ r.heap = [heap EXCEPT ![cache[key]].visited = TRUE]
                       /\ r.stats = [stats EXCEPT !.hits = @ + 1]
                  ELSE /\ get_ret(Store, key) = None
                       /\ r.heap = heap
                       /\ r.stats = [stats EXCEPT !.misses = @ + 1]

\* a get finds an unvisited entry that is neither head nor the hand, in a full
\* store, and marks it
C8_GetHit ==
    /\ CanGet /\ Len(List) = 2 /\ hand # None
    /\ \E key \in IndexKeys :
           /\ cache[key] \notin {head, hand}
           /\ ~heap[cache[key]].visited
           /\ get(Store, key).heap[cache[key]].visited
           /\ get(Store, key).stats.hits = 1

\* the keys in list order, head first, in the outcome r of a call
OrderOf(r) ==
    LET list == Walk(r.heap, r.head, MaxNodes + 1)
    IN [i \in 1..Len(list) |-> r.heap[list[i]].key]

\* C9: add of a present key returns true, replaces the value, sets the visited
\* flag and leaves size, the list, head, tail, hand and the other entries alone;
\* add of an absent key returns false and links a new unvisited entry at head,
\* whose value get then returns
C9_Add ==
    status = "ok" =>
        \A key \in Keys, value \in Values :
            LET r == add(Store, key, value)
            IN ~r.full =>
                   /\ Returned(r)
                   /\ IF key \in IndexKeys
                      THEN /\ add_ret(Store, key) = TRUE
                           /\ r.heap = [heap EXCEPT ![cache[key]].visited = TRUE,
                                                    ![cache[key]].value = value]
                           /\ SameShape(r) /\ r.stats = stats
                      ELSE /\ add_ret(Store, key) = FALSE
                           /\ r.head # None /\ r.cache[key] = r.head
                           /\ r.heap[r.head] = [r.heap[r.head] EXCEPT !.key = key, !.value = value,
                                                                      !.visited = FALSE, !.prev = None]
                           /\ r.heap[r.head].next # None => r.heap[r.heap[r.head].next].prev = r.head
                           /\ size # capacity => OrderOf(r) = <<key>> \o ListOrder
                           /\ get_ret(r, key) = value

\* an add replaces the value of an entry that is neither head nor the hand
C9_AddReplaced ==
    /\ status = "ok" /\ Len(List) = 2 /\ hand # None
    /\ \E key \in IndexKeys : \E value \in ValuesOf(key) :
           /\ cache[key] \notin {head, hand}
           /\ heap[cache[key]].value # value
           /\ add_ret(Store, key)
           /\ get_ret(add(Store, key, value), key) = value

\* C10: probe of a present key returns the stored value and true and leaves the
\* store as it was: the value, the visited flag, size, the list, the hand and
\* the statistics; probe of an absent key inserts the value it was given and
\* returns it and false
C10_Probe ==
    status = "ok" =>
        \A key \in Keys, value \in Values :
            LET r == probe(Store, key, value)
            IN ~r.full =>
                   /\ Returned(r)
                   /\ IF key \in IndexKeys
                      THEN /\ probe_ret(Store, key, value) = heap[cache[key]].value
                           /\ r.heap = heap /\ SameShape(r) /\ r.stats = stats
                      ELSE /\ probe_ret(Store, key, value) = value
                           /\ r.cache[key] # None
                           /\ get_ret(r, key) = value

\* a probe with another value finds an unvisited entry that is neither head nor
\* the hand, and returns what is stored
C10_ProbeHit ==
    /\ status = "ok" /\ Len(List) = 2 /\ hand # None
    /\ \E key \in IndexKeys : \E value \in ValuesOf(key) :
           /\ cache[key] \notin {head, hand}
           /\ ~heap[cache[key]].visited
           /\ heap[cache[key]].value # value
           /\ probe_ret(Store, key, value) = heap[cache[key]].value
           /\ probe(Store, key, value).heap = heap

\* C11: delete of an absent key returns false and changes nothing; delete of a
\* present key returns true, get then finds the key no more, len() is one less,
\* and every other retrievable key keeps its value and its visited flag
C11_Delete ==
    status = "ok" =>
        \A key \in Keys :
            LET r == delete(Store, key)
            IN /\ Returned(r)
               /\ IF key \notin IndexKeys
                  THEN /\ delete_ret(Store, key) = FALSE
                       /\ r.heap = heap /\ SameShape(r) /\ r.stats = stats
                  ELSE /\ delete_ret(Store, key) = TRUE
                       /\ r.cache[key] = None
                       /\ r.size = size - 1
                       /\ \A k \in IndexKeys \ {key} :
                              /\ r.cache[k] # None
                              /\ r.heap[r.cache[k]].value = heap[cache[k]].value
                              /\ r.heap[r.cache[k]].visited = heap[cache[k]].visited

\* C12: after purge len() is 0, is_empty() holds, no key is retrievable, head,
\* tail and hand are unset, and hits and misses are what they were (capacity
\* is no field that purge can write: C3_CapacityFixed)
C12_Purge ==
    status = "ok" =>
        LET r == purge(Store)
        IN /\ Returned(r)
           /\ r.size = 0
           /\ \A k \in Keys : r.cache[k] = None
           /\ r.head = None /\ r.tail = None /\ r.hand = None
           /\ r.stats = stats

\* a purge empties a full store that has counted a hit and set the hand
C12_Purged ==
    /\ status = "ok" /\ stats.hits = 1 /\ capacity = MaxCapacity
    /\ size = MaxCapacity /\ hand # None /\ IndexKeys # {}
    /\ purge(Store).size = 0 /\ purge(Store).stats.hits = 1

\* C13: no call decreases hits or misses; a get of a present key adds one to
\* hits and leaves misses, a get of an absent key adds one to misses and leaves
\* hits
C13_Stats ==
    /\ [](status = "ok" =>
            \A key \in Keys :
                LET r == get(Store, key)
                IN IF key \in IndexKeys
                   THEN r.stats.hits = stats.hits + 1 /\ r.stats.misses = stats.misses
                   ELSE r.stats.misses = stats.misses + 1 /\ r.stats.hits = stats.hits)
    /\ [][stats'.hits >= stats.hits /\ stats'.misses >= stats.misses]_vars

\* a get misses in a full store
C13_GetMissed ==
    /\ CanGet /\ size = capacity /\ Cardinality(IndexKeys) = MaxCapacity
    /\ \E key \in Keys \ IndexKeys : get(Store, key).stats = [hits |-> 0, misses |-> 1]

\* the outcomes of the insertions that the store takes from here and that call
\* evict: add and probe of a key that the index does not hold
Evictions ==
    {r \in {Insertion(by_add, key, value) : by_add \in BOOLEAN, key \in Keys \ IndexKeys, value \in Values} :
        ~r.full /\ r.evicts = 1}

\* C14: an eviction in a store of size N loads the visited flag of at most 2N
\* entries before it returns
C14_InspectionBound == status = "ok" => \A r \in Evictions : Len(r.insp) <= 2 * size

\* C15: new with a capacity below 1 returns CapacityError, and there is no store
\* to call; with a capacity of 1 or more it returns a store of that capacity
\* with len() 0, head, tail and hand unset and hits and misses 0
C15_New ==
    /\ IF capacity < 1
       THEN status = "CapacityError"
       ELSE /\ status = "ok"
            /\ len = 0 /\ is_empty
            /\ IndexKeys = {}
            /\ head = None /\ tail = None /\ hand = None
            /\ stats = [hits |-> 0, misses |-> 0]
    /\ [][status # "CapacityError"]_vars

\* new has refused the capacity 0
C15_Refused == capacity = 0 /\ status = "CapacityError" /\ size = 0

\* C16: no call locks a Mutex whose guard it holds, and the eviction loop of no
\* call runs on without end
C16_Terminates == status # "blocked" /\ status # "spinning"

\* an eviction that starts at a removed entry loads three flags and returns,
\* and the index then holds every key
C16_LongSweep ==
    /\ status = "ok"
    /\ \E r \in Evictions :
           /\ Returned(r)
           /\ Len(r.insp) = 3
           /\ \A k \in Keys : r.cache[k] # None

\* the cells that the store keeps alive: the entries of the list and the
\* removed entries that the hand still leads to
Held == Cardinality({n \in DOMAIN heap : heap[n] # NoNode})

\* C17 as stated: the loop body of an eviction in a store of size N runs at most
\* N times
C17_SizeBound == status = "ok" => \A r \in Evictions : Len(r.insp) <= size

\* C17, amended: the loop body of an eviction runs at most once more than there
\* are entries that the store keeps alive
C17_HeldBound == status = "ok" => \A r \in Evictions : Len(r.insp) <= Held + 1

\* an eviction passes every cell of the heap, comes back to the first and
\* returns
C17_FullPass == status = "ok" /\ \E r \in Evictions : Returned(r) /\ Len(r.insp) = MaxNodes + 1

\* the keys of order that the index of the outcome r holds
Kept(r, order) == LET Keep(k) == r.cache[k] # None IN SelectSeq(order, Keep)

\* C18: following next from head visits the entries of the index, the latest
\* inserted first and the oldest, the tail, last: an insertion puts its key at
\* head in front of the keys that stay, in the order they had; a delete takes
\* its key out of that order; get, add and probe of a present key leave it
C18_InsertionOrder ==
    status = "ok" =>
        /\ Len(List) <= MaxNodes
        /\ ListKeys = IndexKeys
        /\ \A i, j \in 1..Len(List) : ListOrder[i] = ListOrder[j] => i = j
        /\ IndexKeys # {} => head = List[1] /\ tail = List[Len(List)]
        /\ \A key \in Keys \ IndexKeys, value \in Values, by_add \in BOOLEAN :
               LET r == Insertion(by_add, key, value)
               IN Returned(r) => OrderOf(r) = <<key>> \o Kept(r, ListOrder)
        /\ \A key \in Keys :
               LET r == delete(Store, key)
               IN Returned(r) => OrderOf(r) = Kept(r, ListOrder)
        /\ \A key \in IndexKeys, value \in Values :
               /\ OrderOf(get(Store, key)) = ListOrder
               /\ OrderOf(add(Store, key, value)) = ListOrder
               /\ OrderOf(probe(Store, key, value)) = ListOrder

\* sieve.rs iter with iter.rs next: the pairs that the traversal yields
iter == [i \in 1..Len(List) |-> <<heap[List[i]].key, heap[List[i]].value>>]

\* C19: following next from head meets no cell twice, so the traversal of iter
\* is finite: it starts at head and ends at the first entry whose next is unset
C19_NoCycle ==
    status = "ok" =>
        /\ Len(iter) <= Held
        /\ \A i, j \in 1..Len(List) : List[i] = List[j] => i = j
        /\ IF head = None
           THEN iter = <<>>
           ELSE /\ List[1] = head
                /\ heap[List[Len(List)]].next = None
                /\ \A i \in 1..(Len(List) - 1) : heap[List[i]].next = List[i + 1]

\* a traversal of two entries in a store whose hand holds a removed entry
C19_Traversal == status = "ok" /\ Len(iter) = 2 /\ hand # None /\ ~InList(hand)

\* C20: right after add(k, v), and after probe(k, v) of an absent k, get(k)
\* finds v: the eviction of the call has not removed the entry it inserted
C20_ReadYourWrite ==
    status = "ok" =>
        \A key \in Keys, value \in Values, by_add \in BOOLEAN :
            LET r == Insertion(by_add, key, value)
            IN ((by_add \/ key \notin IndexKeys) /\ Returned(r)) =>
                   /\ r.cache[key] # None
                   /\ get_ret(r, key) = value

\* an add into a full store of capacity 1 evicts, and its value is there
C20_WrittenAtCapacityOne ==
    /\ status = "ok" /\ capacity = 1 /\ size = 1
    /\ \E key \in Keys \ IndexKeys : \E value \in ValuesOf(key) :
           LET r == add(Store, key, value)
           IN Returned(r) /\ r.evicts = 1 /\ r.size = 1 /\ get_ret(r, key) = value

\* C21: size -= 1 in delete and in evict runs only with size >= 1: no call
\* panics on the subtraction and none wraps the counter
C21_NoUnderflow ==
    /\ status # "panicked"
    /\ status = "ok" =>
           /\ \A key \in IndexKeys : size >= 1 /\ delete(Store, key).size <= size
           /\ \A r \in Evictions : size >= 1 /\ r.size <= size

\* C22: add, probe, delete, purge and the evictions they call leave hits and
\* misses as they were, and every get adds one to their sum: hits + misses is
\* the number of get calls since new
C22_StatsOnlyByGet ==
    /\ stats.hits + stats.misses = 0
    /\ [](status = "ok" =>
            \A key \in Keys, value \in Values :
                /\ get(Store, key).stats.hits + get(Store, key).stats.misses
                       = stats.hits + stats.misses + 1
                /\ add(Store, key, value).stats = stats
                /\ probe(Store, key, value).stats = stats
                /\ delete(Store, key).stats = stats
                /\ purge(Store).stats = stats)

\* a probe of an absent key evicts in a store that has counted a hit
C22_EvictedAfterHit ==
    /\ status = "ok" /\ stats = [hits |-> 1, misses |-> 0]
    /\ \E key \in Keys \ IndexKeys, value \in Values :
           LET r == probe(Store, key, value)
           IN Returned(r) /\ r.evicts = 1 /\ r.stats = stats

\* C23: while delete is never called, the hand is unset or on an entry of the
\* list, size is the number of keys in the index and the number of entries
\* that following next from head reaches, and an eviction takes out of the
\* index the entry that it unlinks
C23_ConsistentWithoutDelete ==
    status = "ok" =>
        /\ hand = None \/ (InList(hand) /\ Live(hand))
        /\ size = Cardinality(IndexKeys)
        /\ size = Len(List)
        /\ ListKeys = IndexKeys
        /\ EvictionDue =>
               LET r == evict(Store)
               IN /\ r.victim # None /\ InList(r.victim)
                  /\ r.removed = r.victim
                  /\ {k \in IndexKeys : r.cache[k] = None} = {heap[r.victim].key}
                  /\ Walk(r.heap, r.head, MaxNodes + 1) = SelectSeq(List, LAMBDA n : n # r.victim)

\* an eviction in a store with every entry visited takes the tail and leaves
\* the hand on its prev
C23_HandOnPrev ==
    /\ EvictionDue /\ hand = None /\ size = MaxCapacity
    /\ \A i \in 1..Len(List) : heap[List[i]].visited
    /\ LET r == evict(Store)
       IN /\ Len(r.insp) = MaxCapacity + 1
          /\ r.victim = tail
          /\ r.hand # None /\ r.hand = heap[tail].prev

====
